---------------------------- MODULE Spec2Model ----------------------------
(***************************************************************************)
(* A model of normalize/diff.py: the structural diff of two record trees.  *)
(*                                                                         *)
(* Values are tagged records: k is the runtime shape.                      *)
(*   str     s: the text, a sequence of character tokens                   *)
(*   int     n: the number                                                 *)
(*   none    Python's None                                                 *)
(*   nothing the module's _nothing sentinel ("not set")                    *)
(*   rec     t: the declared type, f: property name -> value               *)
(*   list    items: a sequence of scalar values                            *)
(*   dict    d: key -> scalar value, order: how it iterates its keys       *)
(*   coll    t: the collection type, items: a sequence of records          *)
(* A path (FieldSelector) is a sequence of components; a component is a    *)
(* property name / mapping key (Fld) or an integer index (Key).            *)
(***************************************************************************)
EXTENDS Integers, Sequences, FiniteSets, TLC

VARIABLES
    base,       \* diff_iter's first argument
    other,      \* diff_iter's second argument
    options,    \* the options= argument ("none": not passed)
    kwargs,     \* the inline option keywords, a function name -> value
    pc,         \* "start", "iter" (a generator was returned), "done", "raised"
                \* (an exception has reached the caller), "stopped" (the
                \* generator ended after it had raised)
    gen,        \* what the generator has still to do: entries to yield, raises
    out,        \* the entries the caller has received so far
    exc,        \* the exception raised to the caller, "" when none
    called      \* the function the caller called: "diff_iter" or "diff" ("" at
                \* the start); only diff_iter hands the caller a generator

vars == <<base, other, options, kwargs, pc, gen, out, exc, called>>

-----------------------------------------------------------------------------
(* Bounds of the model *)

MaxLen == 3      \* the longest sequence drawn as an input
MaxItems == 2    \* the largest keyed collection drawn as an input

-----------------------------------------------------------------------------
(* Values *)

Str(s) == [k |-> "str", s |-> s]
IntV(n) == [k |-> "int", n |-> n]
NoneV == [k |-> "none"]
\* _nothing = _Nothing(): the sentinel for "not set"
Nothing == [k |-> "nothing"]
Rec(t, f) == [k |-> "rec", t |-> t, f |-> f]
ListV(items) == [k |-> "list", items |-> items]
\* a dict object: what it maps, and the order in which it iterates its keys,
\* which belongs to the object (two equal dicts can iterate differently)
DictV(d, order) == [k |-> "dict", d |-> d, order |-> order]
Coll(t, items) == [k |-> "coll", t |-> t, items |-> items]

Fld(name) == [name |-> name, idx |-> -1]
Key(i) == [name |-> "", idx |-> i]
\* the wildcard component of a MultiFieldSelector: any key of a collection
AnyKey == [name |-> "*", idx |-> -1]

\* type(v)
TypeOf(v) ==
    IF v.k \in {"rec", "coll"} THEN v.t
    ELSE IF v.k = "none" THEN "NoneType"
    ELSE v.k

\* isinstance(v, basestring)
IsString(v) == v.k = "str"

-----------------------------------------------------------------------------
(* DiffTypes *)

NO_CHANGE == "NO_CHANGE"
ADDED == "ADDED"
REMOVED == "REMOVED"
MODIFIED == "MODIFIED"

DiffInfo(dt, b, o) == [diff_type |-> dt, base |-> b, other |-> o]

-----------------------------------------------------------------------------
(* DiffOptions *)

\* DiffOptions.__init__'s defaults
DefaultOptions ==
    [ignore_ws |-> TRUE, ignore_case |-> FALSE, unicode_normal |-> TRUE,
     unchanged |-> FALSE, ignore_empty_slots |-> FALSE, duck_type |-> FALSE,
     extraneous |-> FALSE, compare_filter |-> {}]

\* DiffOptions(**kw): every keyword given replaces its default.  The filter is
\* a set of paths; the empty set stands for compare_filter=None.
DiffOptions(kw) ==
    [n \in DOMAIN DefaultOptions |->
        IF n \in DOMAIN kw THEN kw[n] ELSE DefaultOptions[n]]

IsWhitespace(c) == c \in {" ", "TAB"}

RECURSIVE SplitWords(_, _, _)
\* re.split(r'\s+', value) keeping the pieces with len(x) > 0 (str.split()
\* gives the same pieces): cur is the piece being read, acc the pieces so far
SplitWords(s, cur, acc) ==
    IF s = << >>
    THEN IF cur = << >> THEN acc ELSE Append(acc, cur)
    ELSE IF IsWhitespace(Head(s))
         THEN SplitWords(Tail(s), << >>,
                         IF cur = << >> THEN acc ELSE Append(acc, cur))
         ELSE SplitWords(Tail(s), Append(cur, Head(s)), acc)

RECURSIVE JoinWords(_)
\* " ".join(words)
JoinWords(ws) ==
    IF ws = << >> THEN << >>
    ELSE IF Len(ws) = 1 THEN ws[1]
    ELSE ws[1] \o <<" ">> \o JoinWords(Tail(ws))

\* normalize_whitespace deleting the whitespace instead of collapsing it
normalize_whitespace_strip(s) ==
    LET NotWhitespace(c) == ~IsWhitespace(c)
    IN  SelectSeq(s, NotWhitespace)

normalize_whitespace(s) == JoinWords(SplitWords(s, << >>, << >>))

UpperChar(c) ==
    CASE c = "a" -> "A"
      [] c = "b" -> "B"
      [] c = "e" -> "E"
      [] c = "e_acute" -> "E_acute"
      [] c = "h" -> "H"
      [] c = "n" -> "N"
      [] c = "o" -> "O"
      [] c = "x" -> "X"
      [] c = "y" -> "Y"
      [] OTHER -> c

\* value.upper()
normalize_case(s) == [i \in DOMAIN s |-> UpperChar(s[i])]

RECURSIVE normalize_unf(_)
\* unicodedata.normalize('NFC', value): a letter followed by the combining
\* acute accent composes to the precomposed letter
normalize_unf(s) ==
    IF Len(s) < 2 THEN s
    ELSE IF s[2] = "COMBINING_ACUTE" /\ s[1] \in {"e", "E"}
         THEN <<IF s[1] = "e" THEN "e_acute" ELSE "E_acute">>
              \o normalize_unf(Tail(Tail(s)))
         ELSE <<s[1]>> \o normalize_unf(Tail(s))

normalize_text(s, o) ==
    LET s1 == IF o.ignore_ws THEN normalize_whitespace(s) ELSE s
        s2 == IF o.ignore_case THEN normalize_case(s1) ELSE s1
    IN  IF o.unicode_normal THEN normalize_unf(s2) ELSE s2

\* value_is_empty without the isinstance test: every falsy value is empty
value_is_empty_falsy(v) ==
    (v.k = "str" /\ v.s = << >>) \/ v.k = "none" \/ (v.k = "int" /\ v.n = 0)

\* not value and isinstance(value, (basestring, NoneType))
value_is_empty(v) == (v.k = "str" /\ v.s = << >>) \/ v.k = "none"

normalize_val(v, o) ==
    LET v1 == IF IsString(v) THEN Str(normalize_text(v.s, o)) ELSE v
    IN  IF o.ignore_empty_slots /\ value_is_empty(v1) THEN Nothing ELSE v1

\* No property of the modelled types declares compare_as.
normalize_slot(v, o) == normalize_val(v, o)

\* No modelled collection declares compare_item_as.
normalize_item(v, o) == normalize_val(v, o)

\* items_equal comparing by identity (a is b): two strings built by
\* normalization are never the same object
items_equal_is(a, b) == a = b /\ ~IsString(a)

\* a == b
items_equal(a, b) == a = b

RECURSIVE IsPrefix(_, _)
\* sel, a path of a MultiFieldSelector, covers the first components of p
\* (or p the first components of sel): AnyKey matches every component
IsPrefix(sel, p) ==
    \/ sel = << >>
    \/ p = << >>
    \/ /\ (Head(sel) = AnyKey \/ Head(sel) = Head(p))
       /\ IsPrefix(Tail(sel), Tail(p))

\* fs in compare_filter: fs lies on, or below, a selected path
InFilter(mfs, fs) == \E sel \in mfs : IsPrefix(sel, fs)

\* self.compare_filter and fs not in self.compare_filter
is_filtered(o, fs) == o.compare_filter # {} /\ ~InFilter(o.compare_filter, fs)

-----------------------------------------------------------------------------
(* The declared types of the records compared (normalize.record, *)
(* normalize.coll): what the comparers read of them              *)

\* sorted(type(a).properties)
SortedProps(t) ==
    CASE t = "Person" -> <<"id", "name", "note", "tags">>
      [] t = "Employee" -> <<"id", "name", "note", "role", "tags">>
      [] t = "Group" -> <<"attrs", "members", "owner">>
      [] OTHER -> << >>

\* prop.extraneous
Extraneous(t, p) == p = "note"

\* the properties a record's identity is made of
PrimaryKey(t) == IF t \in {"Person", "Employee"} THEN <<"id">> ELSE << >>

\* type(propval_a).itemtype
ItemType(t) == IF t = "EmployeeList" THEN "Employee" ELSE "Person"

\* getattr(a, propname, _nothing)
GetAttr(a, p) ==
    IF a.k = "rec" /\ p \in DOMAIN a.f THEN a.f[p] ELSE Nothing

\* COMPARABLE without Record: no comparer registered for nested records
IsComparableNoRecord(v) == v.k \in {"list", "dict", "coll"}

\* isinstance(v, COMPARABLE)
IsComparable(v) == v.k \in {"list", "dict", "coll", "rec"}

-----------------------------------------------------------------------------
(* What a generator can do when it is consumed: the set of its possible    *)
(* behaviours, each the sequence of the entries it yields, in order, with  *)
(* TypeErrorMark where it raises TypeError.  The behaviours of one         *)
(* generator differ in the order in which it iterates its hash sets, which *)
(* is any order, chosen anew at every loop over a set.                     *)

TypeErrorMark == [raise |-> "TypeError"]
Empty == {<< >>}
One(e) == {<<e>>}
Raise == {<<TypeErrorMark>>}

\* the behaviour g of a generator raises the type error
Raises(g) == \E n \in DOMAIN g : g[n] = TypeErrorMark

\* consecutive loops of yields in one generator function: a raise in the
\* first finishes the generator, the second is never run
Chain(X, Y) == {IF Raises(x) THEN x ELSE x \o y : x \in X, y \in Y}

\* itertools.chain(g1, g2): when g1 has raised, the next next() finds g1
\* finished and goes on with g2
ItertoolsChain(X, Y) == {x \o y : x \in X, y \in Y}

RECURSIVE IterOrder(_)
\* for ... in <set>: the members of the hash set S, in any order
IterOrder(S) ==
    IF S = {} THEN {<< >>}
    ELSE UNION {{<<x>> \o t : t \in IterOrder(S \ {x})} : x \in S}

\* SeenCount without the counter: equal values collapse to one set member
SeenCountCollapsed(vs, keep, i) == 0

\* seen[v] when position i is reached: the kept earlier positions of equal value
SeenCount(vs, keep, i) ==
    Cardinality({j \in 1..(i - 1) : keep[j] /\ vs[j] = vs[i]})

\* vals.add((v, seen[v])) for every kept position
ValueSet(vs, keep) ==
    {<<vs[i], SeenCount(vs, keep, i)>> : i \in {j \in DOMAIN vs : keep[j]}}

\* Positions without the keep test: items normalized away are reported too
PositionsKeepAll(vs, keep, vals, inside) ==
    IterOrder({i \in DOMAIN vs :
                  (<<vs[i], SeenCount(vs, keep, i)>> \in vals) = inside})

\* the orders in which a loop over a set of (v, seq) pairs can visit the kept
\* positions of vs whose pair is in (inside = TRUE) or not in (inside =
\* FALSE) the set vals
Positions(vs, keep, vals, inside) ==
    IterOrder({i \in DOMAIN vs :
                  keep[i] /\ ((<<vs[i], SeenCount(vs, keep, i)>> \in vals) = inside)})

\* rev_key[(v, seq)]: the position holding the pair
PositionOf(vs, keep, pair) ==
    CHOOSE i \in DOMAIN vs :
        keep[i] /\ <<vs[i], SeenCount(vs, keep, i)>> = pair

-----------------------------------------------------------------------------
(* compare_list_iter *)

compare_list_iter(propval_a, propval_b, fs_a, fs_b, o) ==
    LET xa == propval_a.items
        xb == propval_b.items
        va == [i \in DOMAIN xa |-> normalize_item(xa[i], o)]
        vb == [i \in DOMAIN xb |-> normalize_item(xb[i], o)]
        ka == [i \in DOMAIN xa |-> va[i] # Nothing \/ ~o.ignore_empty_slots]
        kb == [i \in DOMAIN xb |-> vb[i] # Nothing \/ ~o.ignore_empty_slots]
        values_a == ValueSet(va, ka)
        values_b == ValueSet(vb, kb)
        PairA(i) == <<va[i], SeenCount(va, ka, i)>>
        YieldUnchanged(s) ==
            [n \in DOMAIN s |->
                DiffInfo(NO_CHANGE,
                         Append(fs_a, Key(s[n] - 1)),
                         Append(fs_b, Key(PositionOf(vb, kb, PairA(s[n])) - 1)))]
        YieldRemoved(s) ==
            [n \in DOMAIN s |-> DiffInfo(REMOVED, Append(fs_a, Key(s[n] - 1)), fs_b)]
        YieldAdded(s) ==
            [n \in DOMAIN s |-> DiffInfo(ADDED, fs_a, Append(fs_b, Key(s[n] - 1)))]
    IN  Chain(Chain(IF o.unchanged
                    THEN {YieldUnchanged(s) : s \in Positions(va, ka, values_b, TRUE)}
                    ELSE Empty,
                    {YieldRemoved(s) : s \in Positions(va, ka, values_b, FALSE)}),
              {YieldAdded(s) : s \in Positions(vb, kb, values_a, FALSE)})

-----------------------------------------------------------------------------
(* compare_dict_iter *)

\* every key a modelled mapping may hold, in the order a mapping whose
\* order is "asc" iterates them ("desc": the opposite order)
DictKeys == <<"k1", "k2">>

\* propval_x.iteritems(): the keys of the mapping dv in the order it iterates
\* them
IterKeys(dv) ==
    LET n == Len(DictKeys)
        ks == [i \in 1..n |-> IF dv.order = "asc" THEN DictKeys[i]
                                                     ELSE DictKeys[n + 1 - i]]
        Has(key) == key \in DOMAIN dv.d
    IN  SelectSeq(ks, Has)

compare_dict_iter(propval_a, propval_b, fs_a, fs_b, o) ==
    LET keys_a == IterKeys(propval_a)
        keys_b == IterKeys(propval_b)
        va == [i \in DOMAIN keys_a |-> normalize_item(propval_a.d[keys_a[i]], o)]
        vb == [i \in DOMAIN keys_b |-> normalize_item(propval_b.d[keys_b[i]], o)]
        ka == [i \in DOMAIN keys_a |-> va[i] # Nothing \/ ~o.ignore_empty_slots]
        kb == [i \in DOMAIN keys_b |-> vb[i] # Nothing \/ ~o.ignore_empty_slots]
        values_a == ValueSet(va, ka)
        values_b == ValueSet(vb, kb)
        PairA(i) == <<va[i], SeenCount(va, ka, i)>>
        YieldUnchanged(s) ==
            [n \in DOMAIN s |->
                DiffInfo(NO_CHANGE,
                         Append(fs_a, Fld(keys_a[s[n]])),
                         Append(fs_b, Fld(keys_b[PositionOf(vb, kb, PairA(s[n]))])))]
        YieldRemoved(s) ==
            [n \in DOMAIN s |-> DiffInfo(REMOVED, Append(fs_a, Fld(keys_a[s[n]])), fs_b)]
        YieldAdded(s) ==
            [n \in DOMAIN s |-> DiffInfo(ADDED, fs_a, Append(fs_b, Fld(keys_b[s[n]])))]
    IN  Chain(Chain(IF o.unchanged
                    THEN {YieldUnchanged(s) : s \in Positions(va, ka, values_b, TRUE)}
                    ELSE Empty,
                    {YieldRemoved(s) : s \in Positions(va, ka, values_b, FALSE)}),
              {YieldAdded(s) : s \in Positions(vb, kb, values_a, FALSE)})

-----------------------------------------------------------------------------
(* compare_record_iter, compare_collection_iter and the dispatch on shape *)

\* compare_filter[fs][any]: the part of the filter below any key of the
\* collection at fs; << >> stands for everything below
SubSelector(mfs, fs) ==
    {IF Len(sel) > Len(fs) + 1 THEN SubSeq(sel, Len(fs) + 2, Len(sel)) ELSE << >> :
        sel \in {x \in mfs : IsPrefix(x, fs)}}

\* DiffOptions.id_args: the keywords passed to record_id.  type_ is passed
\* only under duck typing ("" when not passed), selector only when a
\* compare_filter is set
id_args(type_, fs, o) ==
    [type_ |-> IF o.duck_type THEN type_ ELSE "",
     has_selector |-> o.compare_filter # {},
     selector |-> IF o.compare_filter # {}
                  THEN SubSelector(o.compare_filter, fs)
                  ELSE {}]

\* DiffOptions.record_id(record, **id_args): the record's identity, the tuple
\* of the primary-key slots of type_ (of the record's own type when type_ is
\* not passed) that the selector, if any, includes, each normalized by
\* normalize_slot
record_id(record, args, o) ==
    LET pk == PrimaryKey(IF args.type_ = "" THEN TypeOf(record) ELSE args.type_)
        Selected(p) == ~args.has_selector \/ InFilter(args.selector, <<Fld(p)>>)
        cols == SelectSeq(pk, Selected)
    IN  [i \in DOMAIN cols |-> normalize_slot(GetAttr(record, cols[i]), o)]

RECURSIVE compare_record_iter(_, _, _, _, _)
RECURSIVE compare_collection_iter(_, _, _, _, _)
RECURSIVE CompareFunctions(_, _, _, _, _)
RECURSIVE CompareProps(_, _, _, _, _, _)
RECURSIVE CompareMatched(_, _, _, _, _, _)

\* One pass of compare_record_iter's loop body, for property propname
CompareProp(a, b, fs_a, fs_b, o, propname) ==
    LET pa == Append(fs_a, Fld(propname))
        pb == Append(fs_b, Fld(propname))
        propval_a == normalize_slot(GetAttr(a, propname), o)
        propval_b == normalize_slot(GetAttr(b, propname), o)
    IN  IF is_filtered(o, pa) THEN Empty
        ELSE IF Extraneous(TypeOf(a), propname) /\ ~o.extraneous THEN Empty
        ELSE IF propval_a = Nothing /\ propval_b = Nothing THEN Empty
        ELSE IF propval_a = Nothing THEN One(DiffInfo(ADDED, pa, pb))
        ELSE IF propval_b = Nothing THEN One(DiffInfo(REMOVED, pa, pb))
        ELSE IF /\ (o.duck_type \/ TypeOf(propval_a) = TypeOf(propval_b))
                /\ IsComparable(propval_a)
             THEN CompareFunctions(propval_a, propval_b, pa, pb, o)
        ELSE IF ~items_equal(propval_a, propval_b)
             THEN One(DiffInfo(MODIFIED, pa, pb))
        ELSE IF o.unchanged THEN One(DiffInfo(NO_CHANGE, pa, pb))
        ELSE Empty

\* for propname in sorted(properties): ...
CompareProps(a, b, fs_a, fs_b, o, props) ==
    IF props = << >> THEN Empty
    ELSE Chain(CompareProp(a, b, fs_a, fs_b, o, Head(props)),
               CompareProps(a, b, fs_a, fs_b, o, Tail(props)))

\* compare_record_iter without the check of the two declared types
compare_record_iter_unchecked(a, b, fs_a, fs_b, o) ==
    CompareProps(a, b, fs_a, fs_b, o, SortedProps(TypeOf(a)))

compare_record_iter(a, b, fs_a, fs_b, o) ==
    IF ~o.duck_type /\ TypeOf(a) # TypeOf(b)
    THEN Raise
    ELSE CompareProps(a, b, fs_a, fs_b, o, SortedProps(TypeOf(a)))

\* CompareMatched extending both paths by side a's key
CompareMatchedSameKey(propval_a, propval_b, fs_a, fs_b, o, matched) ==
    IF matched = << >> THEN Empty
    ELSE LET a_key == Head(matched)[1]
             b_key == Head(matched)[2]
         IN  Chain(compare_record_iter(
                       propval_a.items[a_key], propval_b.items[b_key],
                       Append(fs_a, Key(a_key - 1)), Append(fs_b, Key(a_key - 1)), o),
                   CompareMatched(propval_a, propval_b, fs_a, fs_b, o, Tail(matched)))

\* if compare_values: for pk, seq in values['a'].intersection(values['b']): ...
\* matched holds, in the order of the loop, the pairs <<a_key, b_key>> of
\* positions still to compare
CompareMatched(propval_a, propval_b, fs_a, fs_b, o, matched) ==
    IF matched = << >> THEN Empty
    ELSE LET a_key == Head(matched)[1]
             b_key == Head(matched)[2]
         IN  Chain(compare_record_iter(
                       propval_a.items[a_key], propval_b.items[b_key],
                       Append(fs_a, Key(a_key - 1)), Append(fs_b, Key(b_key - 1)), o),
                   CompareMatched(propval_a, propval_b, fs_a, fs_b, o, Tail(matched)))

compare_collection_iter(propval_a, propval_b, fs_a, fs_b, o) ==
    LET xa == propval_a.items
        xb == propval_b.items
        args == id_args(ItemType(TypeOf(propval_a)), fs_a, o)
        va == [i \in DOMAIN xa |-> record_id(xa[i], args, o)]
        vb == [i \in DOMAIN xb |-> record_id(xb[i], args, o)]
        ka == [i \in DOMAIN xa |-> TRUE]
        kb == [i \in DOMAIN xb |-> TRUE]
        values_a == ValueSet(va, ka)
        values_b == ValueSet(vb, kb)
        \* isinstance(pk, tuple) of the first identity computed; None when the
        \* collections hold nothing
        compare_values == Len(xa) + Len(xb) > 0
        KeyB(i) == PositionOf(vb, kb, <<va[i], SeenCount(va, ka, i)>>)
        YieldUnchanged(s) ==
            [n \in DOMAIN s |->
                DiffInfo(NO_CHANGE,
                         Append(fs_a, Key(s[n] - 1)),
                         Append(fs_b, Key(KeyB(s[n]) - 1)))]
        YieldRemoved(s) ==
            [n \in DOMAIN s |-> DiffInfo(REMOVED, Append(fs_a, Key(s[n] - 1)), fs_b)]
        YieldAdded(s) ==
            [n \in DOMAIN s |-> DiffInfo(ADDED, fs_a, Append(fs_b, Key(s[n] - 1)))]
        Pairs(s) == [n \in DOMAIN s |-> <<s[n], KeyB(s[n])>>]
    IN  Chain(Chain(Chain(IF o.unchanged
                          THEN {YieldUnchanged(s) : s \in Positions(va, ka, values_b, TRUE)}
                          ELSE Empty,
                          {YieldRemoved(s) : s \in Positions(va, ka, values_b, FALSE)}),
                    {YieldAdded(s) : s \in Positions(vb, kb, values_a, FALSE)}),
              IF compare_values
              THEN UNION {CompareMatched(propval_a, propval_b, fs_a, fs_b, o, Pairs(s)) :
                             s \in Positions(va, ka, values_b, TRUE)}
              ELSE Empty)

\* for type_union, func in COMPARE_FUNCTIONS.iteritems():
\*     if isinstance(base, type_union): ... func(base, other, ...)
\* in compare_record_iter, for the value of a slot.  A Collection is a Record
\* too, so both of their comparers run on it, in the order the
\* COMPARE_FUNCTIONS dict is iterated: either.
CompareFunctions(a, b, fs_a, fs_b, o) ==
    CASE a.k = "list" -> compare_list_iter(a, b, fs_a, fs_b, o)
      [] a.k = "dict" -> compare_dict_iter(a, b, fs_a, fs_b, o)
      [] a.k = "rec" -> compare_record_iter(a, b, fs_a, fs_b, o)
      [] a.k = "coll" ->
            Chain(compare_collection_iter(a, b, fs_a, fs_b, o),
                  compare_record_iter(a, b, fs_a, fs_b, o))
            \cup Chain(compare_record_iter(a, b, fs_a, fs_b, o),
                       compare_collection_iter(a, b, fs_a, fs_b, o))
      [] OTHER -> Empty

-----------------------------------------------------------------------------
(* diff_iter and diff *)

NoOptions == NoneV

\* OptionsConflict raising whenever an options object is passed
OptionsConflictAny(opts, kw) == opts # NoOptions

\* options is not None and len(kwargs): raise exc.DiffOptionsException()
OptionsConflict(opts, kw) == opts # NoOptions /\ DOMAIN kw # {}

\* the options the run uses
RunOptions(opts, kw) == IF opts = NoOptions THEN DiffOptions(kw) ELSE opts

\* What the generator diff_iter returns can do when consumed: the one
\* comparer of base, or for a Collection the itertools.chain of its two
\* comparers, in either order of COMPARE_FUNCTIONS
Generators(b, o, opts, kw) ==
    IF b.k = "coll"
    THEN ItertoolsChain(
             compare_collection_iter(b, o, << >>, << >>, RunOptions(opts, kw)),
             compare_record_iter(b, o, << >>, << >>, RunOptions(opts, kw)))
         \cup ItertoolsChain(
             compare_record_iter(b, o, << >>, << >>, RunOptions(opts, kw)),
             compare_collection_iter(b, o, << >>, << >>, RunOptions(opts, kw)))
    ELSE CompareFunctions(b, o, << >>, << >>, RunOptions(opts, kw))

-----------------------------------------------------------------------------
(* The inputs the runs are drawn from *)

\* the options o with the named settings replaced
With(o, kw) == [n \in DOMAIN o |-> IF n \in DOMAIN kw THEN kw[n] ELSE o[n]]

\* the keywords that build o: its settings that are not the default
KwOf(o) == [n \in {m \in DOMAIN o : o[m] # DefaultOptions[m]} |-> o[n]]

Person(id, name, note, tags) ==
    Rec("Person", [id |-> id, name |-> name, note |-> note, tags |-> tags])

\* Employee is a subclass of Person declaring one more property
Employee(id, name, note, tags, role) ==
    Rec("Employee",
        [id |-> id, name |-> name, note |-> note, tags |-> tags, role |-> role])

Group(owner, members, attrs) ==
    Rec("Group", [owner |-> owner, members |-> members, attrs |-> attrs])

PersonList(items) == Coll("PersonList", items)
EmployeeList(items) == Coll("EmployeeList", items)

Sa == Str(<<"a">>)
Sb == Str(<<"b">>)
Sx == Str(<<"x">>)
Sy == Str(<<"y">>)
SEmpty == Str(<< >>)

\* what a scalar slot may hold
SlotVals ==
    {Nothing, NoneV, SEmpty, Sa, Str(<<" ", "a">>), Str(<<"A">>), IntV(0)}

TextOptions ==
    {[ignore_ws |-> TRUE, ignore_case |-> FALSE],
     [ignore_ws |-> FALSE, ignore_case |-> FALSE],
     [ignore_ws |-> TRUE, ignore_case |-> TRUE]}

\* every sequence over vals of at most n items
SeqsUpTo(vals, n) == UNION {[1..m -> vals] : m \in 0..n}

Case(b, o, opts, modes) ==
    [base |-> b, other |-> o, opts |-> opts, modes |-> modes]

AllModes == {"object", "kwargs", "both"}

\* two Persons differing at most in the scalar slot name
ScalarCases ==
    {Case(Person(IntV(1), na, Nothing, Nothing), Person(IntV(1), nb, Nothing, Nothing),
          With(With(DefaultOptions, t), [unchanged |-> u, ignore_empty_slots |-> e]),
          AllModes) :
        na \in SlotVals, nb \in SlotVals, t \in TextOptions,
        u \in BOOLEAN, e \in BOOLEAN}

\* the extraneous property note
ExtraneousCases ==
    {Case(Person(IntV(1), Sa, na, Nothing), Person(IntV(1), Sa, nb, Nothing),
          With(DefaultOptions, [unchanged |-> u, extraneous |-> x]),
          AllModes) :
        na \in {Nothing, Sa, Sb}, nb \in {Nothing, Sa, Sb},
        u \in BOOLEAN, x \in BOOLEAN}

\* text in the two Unicode normal forms
UnicodeCases ==
    {Case(Person(IntV(1), na, Nothing, Nothing), Person(IntV(1), nb, Nothing, Nothing),
          With(DefaultOptions, [unicode_normal |-> n, ignore_case |-> c]),
          {"object"}) :
        na \in {Str(<<"e", "COMBINING_ACUTE">>), Str(<<"e_acute">>), Str(<<"E_acute">>)},
        nb \in {Str(<<"e", "COMBINING_ACUTE">>), Str(<<"e_acute">>)},
        n \in BOOLEAN, c \in BOOLEAN}

TypedPersons ==
    {Person(IntV(1), n, Nothing, Nothing) : n \in {Sa, Sb}}
    \cup {Employee(IntV(1), n, Nothing, Nothing, r) : n \in {Sa, Sb}, r \in {Nothing, Sb}}

\* records of two declared types, with and without duck typing
DuckCases ==
    {Case(a, b, With(DefaultOptions, [duck_type |-> d, unchanged |-> u]),
          {"object", "kwargs"}) :
        a \in TypedPersons, b \in TypedPersons, d \in BOOLEAN, u \in BOOLEAN}

John == Str(<<"J", "o", "h", "n">>)
JoSpSpHn == Str(<<"J", "o", " ", " ", "h", "n">>)
JoSpHn == Str(<<"J", "o", " ", "h", "n">>)

\* Persons with a name and a sequence of tags
TagCases ==
    {Case(Person(Nothing, na, Nothing, ta), Person(Nothing, nb, Nothing, tb),
          With(DefaultOptions, [ignore_ws |-> w, unchanged |-> u]),
          {"object"}) :
        na \in {John, JoSpSpHn}, nb \in {John, JoSpHn},
        ta \in {Nothing, ListV(<<Sx>>), ListV(<<Sx, Sx>>)},
        tb \in {Nothing, ListV(<<Sx>>), ListV(<<Sx, Sx>>), ListV(<<Sy, Sx>>)},
        w \in BOOLEAN, u \in BOOLEAN}

\* two sequences of scalars as the root pair
ListCases ==
    {Case(ListV(xa), ListV(xb), With(DefaultOptions, [unchanged |-> u]),
          {"object"}) :
        xa \in SeqsUpTo({Sx, Sy}, MaxLen), xb \in SeqsUpTo({Sx, Sy}, MaxLen),
        u \in BOOLEAN}

\* sequences holding empty items
EmptyItemCases ==
    {Case(ListV(xa), ListV(xb),
          With(DefaultOptions, [ignore_empty_slots |-> e, unchanged |-> u]),
          {"object"}) :
        xa \in SeqsUpTo({Sx, SEmpty, NoneV}, MaxLen),
        xb \in SeqsUpTo({Sx, SEmpty}, MaxLen - 2),
        e \in BOOLEAN, u \in BOOLEAN}

DictVals == {Sx, Sy, Str(<<" ">>)}
\* every mapping of at most two keys; the order matters with two keys only
Dicts ==
    {DictV(d, "asc") : d \in UNION {[ks -> DictVals] : ks \in SUBSET {"k1", "k2"}}}
    \cup {DictV(d, "desc") : d \in [{"k1", "k2"} -> DictVals]}

\* two scalar mappings as the root pair
DictCases ==
    {Case(a, b, With(DefaultOptions, [ignore_empty_slots |-> e, unchanged |-> u]),
          {"object"}) :
        a \in Dicts, b \in Dicts, e \in BOOLEAN, u \in BOOLEAN}

P1a == Person(IntV(1), Sa, Nothing, Nothing)
P1b == Person(IntV(1), Sb, Nothing, Nothing)
P2a == Person(IntV(2), Sa, Nothing, Nothing)
E1a == Employee(IntV(1), Sa, Nothing, Nothing, Nothing)

\* two keyed collections of Persons as the root pair
CollCases ==
    {Case(PersonList(xa), PersonList(xb), With(DefaultOptions, [unchanged |-> u]),
          {"object"}) :
        xa \in SeqsUpTo({P1a, P1b, P2a}, MaxItems),
        xb \in SeqsUpTo({P1a, P2a}, MaxItems - 1),
        u \in BOOLEAN}

\* keyed collections holding items of a subclass of the item type
MixedCollCases ==
    {Case(PersonList(xa), PersonList(xb),
          With(DefaultOptions, [unchanged |-> u, duck_type |-> d]),
          {"object"}) :
        xa \in {<<P1a>>, <<P1a, P2a>>, <<P2a, P1b>>, <<E1a>>},
        xb \in {<<E1a>>, <<E1a, P2a>>, <<P2a, E1a>>, <<P1a>>, <<P1b, E1a>>},
        u \in BOOLEAN, d \in BOOLEAN}
    \cup
    {Case(PersonList(xa), EmployeeList(xb),
          With(DefaultOptions, [unchanged |-> u, duck_type |-> d]),
          {"object"}) :
        xa \in {<<P1a>>, <<P1b, P1b>>},
        xb \in {<< >>, <<E1a>>},
        u \in BOOLEAN, d \in BOOLEAN}

PersonRoster(items) == Coll("PersonRoster", items)

\* root collections of two declared types whose items have one type
RootCollMismatchCases ==
    {Case(PersonList(xa), PersonRoster(xb),
          With(DefaultOptions, [unchanged |-> u, duck_type |-> d]),
          {"object"}) :
        xa \in {<<P1a>>, <<P1a, P2a>>, <<P2a, P1b>>},
        xb \in {<< >>, <<P1a>>, <<P1b>>, <<P2a, P1b>>},
        u \in BOOLEAN, d \in BOOLEAN}

Members == {Nothing, PersonList(<<P1a>>), PersonList(<<P1a, P2a>>),
            PersonList(<<P2a, P1b>>)}
Owners == {Nothing, P1a, P1b, E1a}
Attrs == {Nothing, DictV([k1 |-> Sx], "asc"),
          DictV([k1 |-> Sy, k2 |-> Sx], "asc"), DictV([k1 |-> Sy, k2 |-> Sx], "desc")}

\* Groups: a nested record, a keyed collection and a scalar mapping as slots
GroupCases ==
    {Case(Group(oa, ma, aa), Group(ob, mb, ab),
          With(DefaultOptions, [unchanged |-> u, duck_type |-> d]),
          {"object"}) :
        oa \in Owners, ob \in Owners, ma \in Members, mb \in Members,
        aa \in {Nothing, DictV([k1 |-> Sx], "asc")}, ab \in Attrs,
        u \in BOOLEAN, d \in BOOLEAN}

E2a == Employee(IntV(2), Sa, Nothing, Nothing, Nothing)

\* Groups whose members hold a matched pair of two declared types
NestedMismatchCases ==
    {Case(Group(oa, ma, Nothing), Group(ob, mb, Nothing),
          With(DefaultOptions, [unchanged |-> u, duck_type |-> d]),
          {"object"}) :
        oa \in {P1a}, ob \in {P1a, P1b},
        ma \in {PersonList(<<P1a>>), PersonList(<<P1a, P2a>>)},
        mb \in {PersonList(<<E1a>>), PersonList(<<P1b, E2a>>)},
        u \in BOOLEAN, d \in BOOLEAN}

Filters ==
    {{<<Fld("name")>>},
     {<<Fld("tags"), Key(0)>>},
     {<<Fld("members"), AnyKey, Fld("name")>>, <<Fld("members"), AnyKey, Fld("id")>>},
     {<<Fld("members"), Key(0)>>},
     {<<Fld("owner"), Fld("id")>>, <<Fld("attrs")>>}}

\* runs restricted by a compare_filter
FilterCases ==
    {Case(Person(IntV(1), na, Nothing, ta), Person(IntV(1), nb, Nothing, tb),
          With(DefaultOptions, [compare_filter |-> f, unchanged |-> u]),
          {"object", "kwargs"}) :
        na \in {Sa}, nb \in {Sa, Sb},
        ta \in {ListV(<<Sx>>), ListV(<<Sx, Sy>>)},
        tb \in {ListV(<<Sx>>), ListV(<<Sy, Sx>>), ListV(<<Sx, Sx>>)},
        f \in Filters, u \in BOOLEAN}
    \cup
    {Case(Group(oa, ma, aa), Group(ob, mb, ab),
          With(DefaultOptions, [compare_filter |-> f, unchanged |-> u]),
          {"object"}) :
        oa \in {P1a}, ob \in {P1a, P1b}, ma \in Members \ {Nothing}, mb \in Members,
        aa \in {DictV([k1 |-> Sx], "asc")}, ab \in {DictV([k1 |-> Sy, k2 |-> Sx], "asc")},
        f \in Filters, u \in BOOLEAN}

-----------------------------------------------------------------------------
(* The state machine: one call of diff_iter or diff, and the consumption of *)
(* the generator diff_iter returned                                         *)

\* A run on one of the inputs of cases
InitFrom(cases) ==
    /\ \E c \in cases, m \in AllModes :
          /\ m \in c.modes
          /\ base = c.base
          /\ other = c.other
          /\ options = IF m = "kwargs" THEN NoOptions ELSE c.opts
          /\ kwargs = IF m = "object" THEN << >>
                      ELSE IF m = "both" /\ KwOf(c.opts) = << >>
                           THEN [unchanged |-> FALSE]
                           ELSE KwOf(c.opts)
    /\ pc = "start"
    /\ gen = << >>
    /\ out = << >>
    /\ exc = ""
    /\ called = ""

Init ==
    \/ InitFrom(ScalarCases)
    \/ InitFrom(ExtraneousCases)
    \/ InitFrom(UnicodeCases)
    \/ InitFrom(DuckCases)
    \/ InitFrom(TagCases)
    \/ InitFrom(ListCases)
    \/ InitFrom(EmptyItemCases)
    \/ InitFrom(DictCases)
    \/ InitFrom(CollCases)
    \/ InitFrom(MixedCollCases)
    \/ InitFrom(RootCollMismatchCases)
    \/ InitFrom(GroupCases)
    \/ InitFrom(NestedMismatchCases)
    \/ InitFrom(FilterCases)

\* diff_iter(base, other, options, **kwargs): returns a generator, untouched;
\* which of its behaviours it will show is settled by the iteration orders
\* of the sets it loops over and of COMPARE_FUNCTIONS
DiffIter ==
    /\ pc = "start"
    /\ IF OptionsConflict(options, kwargs)
       THEN /\ pc' = "raised"
            /\ exc' = "DiffOptionsException"
            /\ gen' = gen
       ELSE /\ pc' = "iter"
            /\ exc' = exc
            /\ gen' \in Generators(base, other, options, kwargs)
    /\ called' = "diff_iter"
    /\ UNCHANGED <<base, other, options, kwargs, out>>

\* next() on the generator yields an entry.  A caller that has caught a
\* TypeError may call next() again: a chain of two comparers goes on with
\* the second.
GenYield ==
    /\ called = "diff_iter"
    /\ pc \in {"iter", "raised"}
    /\ gen # << >>
    /\ Head(gen) # TypeErrorMark
    /\ out' = Append(out, Head(gen))
    /\ gen' = Tail(gen)
    /\ UNCHANGED <<base, other, options, kwargs, pc, exc, called>>

\* next() on the generator raises TypeError (compare_record_iter's type
\* check); the generator that raised is finished, a chain keeps what its
\* next generator has to do
GenRaise ==
    /\ called = "diff_iter"
    /\ pc \in {"iter", "raised"}
    /\ gen # << >>
    /\ Head(gen) = TypeErrorMark
    /\ pc' = "raised"
    /\ exc' = "TypeError"
    /\ gen' = Tail(gen)
    /\ UNCHANGED <<base, other, options, kwargs, out, called>>

\* next() on the generator raises StopIteration: the run is complete, or,
\* for a caller of diff_iter that went on after a TypeError, over
GenStop ==
    /\ called = "diff_iter"
    /\ \/ pc = "iter"
       \/ pc = "raised" /\ exc = "TypeError"
    /\ gen = << >>
    /\ pc' = IF pc = "iter" THEN "done" ELSE "stopped"
    /\ UNCHANGED <<base, other, options, kwargs, gen, out, exc, called>>

\* diff(base, other, **kwargs): Diff(diff_iter(...)) consumes the generator;
\* the caller gets the whole list, or the exception and no list
Diff ==
    /\ pc = "start"
    /\ IF OptionsConflict(options, kwargs)
       THEN /\ pc' = "raised"
            /\ exc' = "DiffOptionsException"
            /\ out' = out
       ELSE \E g \in Generators(base, other, options, kwargs) :
               IF Raises(g)
               THEN /\ pc' = "raised"
                    /\ exc' = "TypeError"
                    /\ out' = out
               ELSE /\ pc' = "done"
                    /\ exc' = exc
                    /\ out' = g
    /\ gen' = << >>
    /\ called' = "diff"
    /\ UNCHANGED <<base, other, options, kwargs>>

Next == DiffIter \/ GenYield \/ GenRaise \/ GenStop \/ Diff

Spec == Init /\ [][Next]_vars

-----------------------------------------------------------------------------
(* Vocabulary of the properties *)

\* the options of the run
RunOpts == RunOptions(options, kwargs)

\* path p lies at or below path q
StartsWith(p, q) == Len(q) <= Len(p) /\ SubSeq(p, 1, Len(q)) = q

\* the entries of out at or below the slot owner
UnderOwner ==
    {n \in DOMAIN out : StartsWith(out[n].base, <<Fld("owner")>>)
                        \/ StartsWith(out[n].other, <<Fld("owner")>>)}

\* the positions of out holding an entry that satisfies P
Where(P(_)) == {n \in DOMAIN out : P(out[n])}

\* the number of times e occurs in the sequence s
Occurrences(s, e) == Cardinality({n \in DOMAIN s : s[n] = e})

\* s and t hold the same entries the same number of times
SameBag(s, t) ==
    /\ Len(s) = Len(t)
    /\ \A n \in DOMAIN s : Occurrences(s, s[n]) = Occurrences(t, s[n])

\* the entry seen from the other side: paths exchanged, Added <-> Removed
SwapEntry(e) ==
    [diff_type |-> IF e.diff_type = ADDED THEN REMOVED
                   ELSE IF e.diff_type = REMOVED THEN ADDED
                   ELSE e.diff_type,
     base |-> e.other,
     other |-> e.base]

\* the run compares two keyed collections: the root pair, or the members of
\* two Groups
HasColls ==
    \/ base.k = "coll" /\ other.k = "coll"
    \/ /\ base.k = "rec" /\ other.k = "rec"
       /\ TypeOf(base) = "Group" /\ TypeOf(other) = "Group"
       /\ base.f.members.k = "coll" /\ other.f.members.k = "coll"
CollA == IF base.k = "coll" THEN base ELSE base.f.members
CollB == IF other.k = "coll" THEN other ELSE other.f.members
CollPath == IF base.k = "coll" THEN << >> ELSE <<Fld("members")>>

\* the identity of item i of a keyed collection and its occurrence index
IdOf(coll, i) ==
    <<normalize_slot(GetAttr(coll.items[i], "id"), RunOpts)>>
OccOf(coll, i) ==
    Cardinality({j \in 1..(i - 1) : IdOf(coll, j) = IdOf(coll, i)})
\* item i of CollA and item j of CollB are a matched (identity, occurrence) pair
Matched(i, j) ==
    IdOf(CollA, i) = IdOf(CollB, j) /\ OccOf(CollA, i) = OccOf(CollB, j)

-----------------------------------------------------------------------------
(* C1  Reflexivity *)

\* C1: comparing a value with itself never raises the type error and yields
\* only Unchanged (NO_CHANGE) entries when options.unchanged is set, and no
\* entry at all when it is not.
C1_Reflexivity ==
    (base = other /\ ~(options # NoOptions /\ DOMAIN kwargs # {})) =>
        /\ exc = ""
        /\ \A n \in DOMAIN out : out[n].diff_type = NO_CHANGE
        /\ ~RunOpts.unchanged => out = << >>

\* a Group holding a nested record, a keyed collection and a mapping was
\* compared with itself and every one of them was reported unchanged
C1_Witness ==
    /\ pc = "done"
    /\ base = other
    /\ base.k = "rec" /\ TypeOf(base) = "Group"
    /\ base.f.members.k = "coll" /\ base.f.owner.k = "rec" /\ base.f.attrs.k = "dict"
    /\ RunOpts.unchanged
    /\ Len(out) >= 4

-----------------------------------------------------------------------------
(* C2  Identity vs. content *)

\* x and y carry equal values in every slot but f, which is not part of the
\* identity and holds, on both sides, scalars that are not equal once normalized
DiffersOnlyIn(x, y, f) ==
    LET vx == normalize_slot(GetAttr(x, f), RunOpts)
        vy == normalize_slot(GetAttr(y, f), RunOpts)
    IN  /\ f \in {"name", "role"}
        /\ vx # Nothing /\ vy # Nothing /\ vx # vy
        /\ ~IsComparable(vx) /\ ~IsComparable(vy)
        /\ \A g \in (DOMAIN x.f \cup DOMAIN y.f) \ {f} : GetAttr(x, g) = GetAttr(y, g)

\* C2: when the items of a matched (identity, occurrence) pair of two keyed
\* collections differ in exactly one non-key field, the run yields for that
\* pair, besides Unchanged entries, exactly one entry: a Modified entry at the
\* collection path extended by each side's own key and then the field name;
\* no Added or Removed entry is yielded for the item.
C2_IdentityVsContent ==
    (pc = "done" /\ HasColls /\ RunOpts.compare_filter = {}) =>
        \A i \in DOMAIN CollA.items, j \in DOMAIN CollB.items :
            \A f \in {"name", "role"} :
                (Matched(i, j) /\ DiffersOnlyIn(CollA.items[i], CollB.items[j], f)) =>
                    LET pa == Append(CollPath, Key(i - 1))
                        pb == Append(CollPath, Key(j - 1))
                        ForItem(e) ==
                            /\ e.diff_type # NO_CHANGE
                            /\ (StartsWith(e.base, pa) \/ StartsWith(e.other, pb))
                    IN  /\ Cardinality(Where(ForItem)) = 1
                        /\ \A n \in Where(ForItem) :
                              out[n] = DiffInfo(MODIFIED, Append(pa, Fld(f)),
                                                Append(pb, Fld(f)))

\* two collections whose matched pair sits at different keys and differs in
\* its name were compared
C2_Witness ==
    /\ pc = "done" /\ HasColls /\ RunOpts.compare_filter = {}
    /\ \E i \in DOMAIN CollA.items, j \in DOMAIN CollB.items :
          /\ i # j
          /\ Matched(i, j)
          /\ DiffersOnlyIn(CollA.items[i], CollB.items[j], "name")

-----------------------------------------------------------------------------
(* C3  Multiset correctness of compare_list_iter *)

\* the normalized items of a sequence
NormItems(l) == [i \in DOMAIN l.items |-> normalize_item(l.items[i], RunOpts)]

\* how many items of the sequence normalize to v
CountOf(l, v) == Cardinality({i \in DOMAIN l.items : NormItems(l)[i] = v})

\* two sequences of scalars are the root pair and no item is normalized away
ListRun ==
    /\ base.k = "list" /\ other.k = "list"
    /\ \A i \in DOMAIN base.items : NormItems(base)[i] # Nothing
    /\ \A i \in DOMAIN other.items : NormItems(other)[i] # Nothing

\* the Removed entries that point at an item of base normalizing to v
RemovedOf(v) ==
    LET P(e) == /\ e.diff_type = REMOVED
                /\ e.other = << >>
                /\ \E i \in DOMAIN base.items :
                      e.base = <<Key(i - 1)>> /\ NormItems(base)[i] = v
    IN  Where(P)

\* the Added entries that point at an item of other normalizing to v
AddedOf(v) ==
    LET P(e) == /\ e.diff_type = ADDED
                /\ e.base = << >>
                /\ \E i \in DOMAIN other.items :
                      e.other = <<Key(i - 1)>> /\ NormItems(other)[i] = v
    IN  Where(P)

Max0(n) == IF n > 0 THEN n ELSE 0

IsAddedOrRemoved(e) == e.diff_type \in {ADDED, REMOVED}

\* C3: for every normalized value v the number of Removed entries for
\* occurrences of v is max(0, count_a(v) - count_b(v)), the number of Added
\* entries is max(0, count_b(v) - count_a(v)), and there is no other Added or
\* Removed entry.
C3_MultisetCorrectness ==
    (pc = "done" /\ ListRun) =>
        LET vals == {NormItems(base)[i] : i \in DOMAIN base.items}
                    \cup {NormItems(other)[i] : i \in DOMAIN other.items}
        IN  /\ \A v \in vals :
                  /\ Cardinality(RemovedOf(v)) = Max0(CountOf(base, v) - CountOf(other, v))
                  /\ Cardinality(AddedOf(v)) = Max0(CountOf(other, v) - CountOf(base, v))
            /\ Where(IsAddedOrRemoved)
                  = UNION {RemovedOf(v) \cup AddedOf(v) : v \in vals}

\* a = [x, x, y] and b = [x, y, y] gave exactly one Removed and one Added
C3_Witness ==
    /\ pc = "done"
    /\ base = ListV(<<Sx, Sx, Sy>>)
    /\ other = ListV(<<Sx, Sy, Sy>>)
    /\ Cardinality(RemovedOf(Sx)) = 1
    /\ Cardinality(AddedOf(Sy)) = 1
    /\ Cardinality(Where(IsAddedOrRemoved)) = 2

-----------------------------------------------------------------------------
(* C4  Symmetry of kind *)

\* what diff_iter(other, base) with the same options can yield
Reverse == Generators(other, base, options, kwargs)

\* the entries received, each seen from the other side
Swapped == [n \in DOMAIN out |-> SwapEntry(out[n])]

\* C4: whatever the options, the entries of diff_iter(b, a) are the entries
\* of diff_iter(a, b) with the paths exchanged and Added and Removed
\* exchanged (Modified and Unchanged keep their kind).
C4_SymmetryAnyOptions ==
    pc = "done" =>
        \A g \in Reverse : ~Raises(g) /\ SameBag(Swapped, g)

\* no path of the filter names a specific key or index of a collection
NoKeyInFilter ==
    \A sel \in RunOpts.compare_filter : \A n \in DOMAIN sel : sel[n].idx < 0

\* Where the exchange does hold: with duck typing off and a filter, if any,
\* that names no specific collection key, a complete run of diff_iter(b, a)
\* yields the entries of diff_iter(a, b) exchanged, in whatever order the
\* hash sets of the two runs are iterated, and diff_iter(b, a) raises the
\* type error whenever diff_iter(a, b) does.
SymmetryWithoutKeyFilter ==
    (~RunOpts.duck_type /\ NoKeyInFilter) =>
        /\ pc = "done" =>
              \A g \in Reverse : ~Raises(g) /\ SameBag(Swapped, g)
        /\ (pc = "raised" /\ exc = "TypeError") =>
              \A g \in Reverse : Raises(g)

-----------------------------------------------------------------------------
(* C5  Filter containment *)

\* some path at or above p is excluded by the filter
Excluded(p) == \E m \in 1..Len(p) : is_filtered(RunOpts, SubSeq(p, 1, m))

\* C5: with a compare_filter configured, no entry yielded has an excluded
\* path as a prefix of its base path or of its other path.
C5_FilterContainment ==
    \A n \in DOMAIN out : ~Excluded(out[n].base) /\ ~Excluded(out[n].other)

-----------------------------------------------------------------------------
(* C6  TypeMismatch *)

IsRecord(v) == v.k \in {"rec", "coll"}

\* the root pair are records of two declared types
RootMismatch ==
    IsRecord(base) /\ IsRecord(other) /\ TypeOf(base) # TypeOf(other)

BothGroups ==
    /\ base.k = "rec" /\ other.k = "rec"
    /\ TypeOf(base) = "Group" /\ TypeOf(other) = "Group"

\* the slot owner of two Groups holds records of two declared types
OwnerMismatch ==
    /\ BothGroups
    /\ base.f.owner.k = "rec" /\ other.f.owner.k = "rec"
    /\ TypeOf(base.f.owner) # TypeOf(other.f.owner)

\* a matched pair of items of two keyed collections has two declared types
ItemMismatch ==
    /\ HasColls
    /\ \E i \in DOMAIN CollA.items, j \in DOMAIN CollB.items :
          Matched(i, j) /\ TypeOf(CollA.items[i]) # TypeOf(CollB.items[j])

NoConflict == ~(options # NoOptions /\ DOMAIN kwargs # {})

\* C6 as stated: with duck typing off, two records of different declared
\* types (the root pair, the values of a slot, a matched pair of items) make
\* the run fail with the type error before any entry is yielded.
C6_RaisedBeforeAnyEntry ==
    (~RunOpts.duck_type /\ NoConflict
        /\ (RootMismatch \/ OwnerMismatch \/ ItemMismatch)) =>
        /\ out = << >>
        /\ pc # "done"
        /\ pc = "raised" => exc = "TypeError"

\* the items of CollA, and of CollB, that have no matched partner
UnmatchedA == {i \in DOMAIN CollA.items : \A j \in DOMAIN CollB.items : ~Matched(i, j)}
UnmatchedB == {j \in DOMAIN CollB.items : \A i \in DOMAIN CollA.items : ~Matched(i, j)}

\* the entries of out, as a set
OutSet == {out[n] : n \in DOMAIN out}

\* the root pair are keyed collections
RootColls == base.k = "coll" /\ other.k = "coll"

\* every item of the two collections sets its key and its name only
PlainItems ==
    \A c \in {CollA, CollB} : \A i \in DOMAIN c.items :
        \A p \in DOMAIN c.items[i].f \ {"id", "name"} : c.items[i].f[p] = Nothing

\* what two root collections of plain items give when every item is compared:
\* Removed and Added for the unmatched items and, for a matched pair,
\* Modified at the name when the names differ; with options.unchanged also
\* Unchanged for the pair, for its key and for a name that is equal
ItemEntries ==
    LET At(i, p) == <<Key(i - 1)>> \o p
        Name(c, i) == normalize_slot(GetAttr(c.items[i], "name"), RunOpts)
        Pairs == {q \in (DOMAIN CollA.items) \X (DOMAIN CollB.items) :
                    Matched(q[1], q[2])}
        Same == {q \in Pairs : Name(CollA, q[1]) = Name(CollB, q[2])}
        Entry(t, q, p) == DiffInfo(t, At(q[1], p), At(q[2], p))
    IN  {DiffInfo(REMOVED, At(i, << >>), << >>) : i \in UnmatchedA}
        \cup {DiffInfo(ADDED, << >>, At(j, << >>)) : j \in UnmatchedB}
        \cup {Entry(MODIFIED, q, <<Fld("name")>>) : q \in Pairs \ Same}
        \cup IF RunOpts.unchanged
             THEN {Entry(NO_CHANGE, q, << >>) : q \in Pairs}
                  \cup {Entry(NO_CHANGE, q, <<Fld("id")>>) : q \in Pairs}
                  \cup {Entry(NO_CHANGE, q, <<Fld("name")>>) : q \in Same}
             ELSE {}

\* C6 amended: with duck typing off, (a) a root pair of two declared types
\* never completes and fails with the type error.  Two plain records fail
\* before any entry is yielded and yield nothing afterwards.  Two keyed
\* collections are compared by the collection comparer and the record
\* comparer chained in either order: the record comparer raises the type
\* error, the collection comparer yields the entries of the items, those
\* below matched items of one type included, so the error comes before or
\* after these entries, and a caller that goes on after the error until the
\* generator ends has received every one of them, once.  (b) A slot holding
\* records of two declared types raises nothing: the run reports the slot
\* with exactly one entry, Modified at the slot, and nothing below it.
\* (c) A matched pair of items of two declared types makes the generator
\* raise the type error, but only after it has yielded the Removed and Added
\* entries of the collection; when the collection is the slot members of a
\* Group the raise finishes the generator, and the slot owner, which comes
\* after it, is never compared.
C6_TypeMismatch ==
    (~RunOpts.duck_type /\ NoConflict) =>
        /\ RootMismatch =>
              /\ pc # "done"
              /\ pc \in {"raised", "stopped"} => exc = "TypeError"
              /\ base.k = "rec" =>
                    /\ out = << >>
                    /\ pc = "raised" => gen = << >>
              /\ (RootColls /\ PlainItems) =>
                    /\ OutSet \subseteq ItemEntries
                    /\ pc = "iter" => \E k \in DOMAIN gen : gen[k] = TypeErrorMark
                    /\ (pc = "stopped" /\ ~ItemMismatch) =>
                          /\ OutSet = ItemEntries
                          /\ Len(out) = Cardinality(ItemEntries)
        /\ (OwnerMismatch /\ ~ItemMismatch) =>
              /\ exc = ""
              /\ \A n \in UnderOwner :
                    out[n] = DiffInfo(MODIFIED, <<Fld("owner")>>, <<Fld("owner")>>)
              /\ (pc = "done" /\ ~is_filtered(RunOpts, <<Fld("owner")>>)) =>
                    Cardinality(UnderOwner) = 1
        /\ (ItemMismatch /\ ~RootMismatch) =>
              /\ pc # "done"
              /\ pc \in {"raised", "stopped"} => exc = "TypeError"
              /\ pc = "iter" =>
                    \E k \in DOMAIN gen :
                        /\ gen[k] = TypeErrorMark
                        /\ \A m \in 1..(k - 1) : gen[m] # TypeErrorMark
                        /\ \A i \in UnmatchedA :
                              DiffInfo(REMOVED, Append(CollPath, Key(i - 1)), CollPath)
                                  \in OutSet \cup {gen[m] : m \in 1..(k - 1)}
                        /\ \A j \in UnmatchedB :
                              DiffInfo(ADDED, CollPath, Append(CollPath, Key(j - 1)))
                                  \in OutSet \cup {gen[m] : m \in 1..(k - 1)}
              /\ (pc = "raised" /\ base.k = "rec") =>
                    /\ gen = << >>
                    /\ \A n \in DOMAIN out : ~StartsWith(out[n].base, <<Fld("owner")>>)

\* a run over two root collections of two declared types raised the type
\* error and yielded the Removed entry of an unmatched item and the Modified
\* entry below a matched pair
C6_Witness ==
    /\ pc = "raised" /\ exc = "TypeError" /\ gen = << >>
    /\ ~RunOpts.duck_type
    /\ RootMismatch /\ RootColls /\ ~ItemMismatch
    /\ DiffInfo(REMOVED, <<Key(1)>>, << >>) \in OutSet
    /\ DiffInfo(MODIFIED, <<Key(0), Fld("name")>>, <<Key(0), Fld("name")>>) \in OutSet

-----------------------------------------------------------------------------
(* C7  ConfigurationConflict *)

\* C7: a call with both an options object and inline option keywords ends at
\* once with the configuration error, no generator built and no entry
\* produced; a call with only one of the two never raises that error.
C7_ConfigurationConflict ==
    /\ (options # NoOptions /\ DOMAIN kwargs # {} /\ pc # "start") =>
          /\ pc = "raised"
          /\ exc = "DiffOptionsException"
          /\ gen = << >>
          /\ out = << >>
    /\ ~(options # NoOptions /\ DOMAIN kwargs # {}) =>
          exc # "DiffOptionsException"

\* a call with both kinds of options has raised the configuration error
C7_Witness ==
    /\ pc = "raised"
    /\ exc = "DiffOptionsException"
    /\ options # NoOptions /\ DOMAIN kwargs # {}

-----------------------------------------------------------------------------
(* C8  Scenario: Person(name="Jo  hn", tags=["x","x"]) vs                *)
(*     Person(name="John", tags=["x"])                                   *)

ScenarioA == Person(Nothing, JoSpSpHn, Nothing, ListV(<<Sx, Sx>>))
ScenarioB == Person(Nothing, John, Nothing, ListV(<<Sx>>))

ScenarioRun ==
    /\ pc = "done"
    /\ base = ScenarioA /\ other = ScenarioB
    /\ RunOpts.ignore_ws /\ ~RunOpts.unchanged

RemovedTag1 == DiffInfo(REMOVED, <<Fld("tags"), Key(1)>>, <<Fld("tags")>>)

\* C8 as stated: the scenario yields exactly one entry, Removed at tags[1],
\* and nothing for name.
C8_ScenarioOneEntry == ScenarioRun => out = <<RemovedTag1>>

\* C8 amended: the scenario yields exactly two entries: Modified at name
\* (whitespace runs collapse to one space, so "Jo  hn" normalizes to "Jo hn",
\* which is not "John") and Removed at tags[1].
C8_Scenario ==
    ScenarioRun =>
        out = <<DiffInfo(MODIFIED, <<Fld("name")>>, <<Fld("name")>>), RemovedTag1>>

\* the scenario has been run to its end
C8_Witness == ScenarioRun /\ Len(out) = 2

-----------------------------------------------------------------------------
(* C9  Record decision table for scalar slots *)

IsScalarOrUnset(v) == v.k \in {"str", "int", "none", "nothing"}

\* the slot counts as Absent: unset, or, when empty slots are ignored, None or
\* text that is empty once normalized (never 0)
SlotAbsent(v) ==
    \/ v = Nothing
    \/ /\ RunOpts.ignore_empty_slots
       /\ (v = NoneV \/ (v.k = "str" /\ normalize_text(v.s, RunOpts) = << >>))

\* the value a present slot is compared as
SlotValue(v) == IF v.k = "str" THEN Str(normalize_text(v.s, RunOpts)) ELSE v

\* the kind the decision table gives, "" for no entry
TableKind(va, vb) ==
    IF SlotAbsent(va) /\ SlotAbsent(vb) THEN ""
    ELSE IF SlotAbsent(va) THEN ADDED
    ELSE IF SlotAbsent(vb) THEN REMOVED
    ELSE IF SlotValue(va) # SlotValue(vb) THEN MODIFIED
    ELSE IF RunOpts.unchanged THEN NO_CHANGE
    ELSE ""

\* the entries of out located at slot p of the root records
AtSlot(p) ==
    {n \in DOMAIN out : out[n].base = <<Fld(p)>> /\ out[n].other = <<Fld(p)>>}

\* slot p of the root records takes part in the comparison
SlotCompared(p) ==
    /\ ~is_filtered(RunOpts, <<Fld(p)>>)
    /\ ~(Extraneous(TypeOf(base), p) /\ ~RunOpts.extraneous)

\* C9: a complete run over two records yields, for every scalar slot of the
\* base type that is neither filtered nor skipped as extraneous, what the
\* decision table says: nothing when both sides are Absent, Added when only
\* the base is, Removed when only the other is, Modified when the two present
\* values are not equal, Unchanged when they are equal and options.unchanged
\* is set, nothing when they are equal and it is not; and never two entries.
C9_DecisionTable ==
    (pc = "done" /\ base.k = "rec" /\ other.k = "rec") =>
        \A p \in {SortedProps(TypeOf(base))[n] : n \in DOMAIN SortedProps(TypeOf(base))} :
            LET va == GetAttr(base, p)
                vb == GetAttr(other, p)
            IN  (SlotCompared(p) /\ IsScalarOrUnset(va) /\ IsScalarOrUnset(vb)) =>
                    IF TableKind(va, vb) = ""
                    THEN AtSlot(p) = {}
                    ELSE /\ Cardinality(AtSlot(p)) = 1
                         /\ \A n \in AtSlot(p) : out[n].diff_type = TableKind(va, vb)

\* with empty slots ignored, name = 0 on the base and name = "" on the other
\* was reported Removed: 0 is a value, the empty string is not
C9_Witness ==
    /\ pc = "done"
    /\ base.k = "rec" /\ other.k = "rec"
    /\ RunOpts.ignore_empty_slots
    /\ GetAttr(base, "name") = IntV(0)
    /\ GetAttr(other, "name") = SEmpty
    /\ \E n \in AtSlot("name") : out[n].diff_type = REMOVED

-----------------------------------------------------------------------------
(* C10  Nested records are compared slot by slot *)

\* the slot owner of two Groups holds a record on both sides
OwnerBothRecords ==
    BothGroups /\ base.f.owner.k = "rec" /\ other.f.owner.k = "rec"

\* C10 as stated: a slot holding a nested record on both sides never gives a
\* Modified entry located at the slot itself.
C10_NeverModifiedAtSlot ==
    OwnerBothRecords =>
        \A n \in DOMAIN out :
            ~(out[n].diff_type = MODIFIED /\ out[n].base = <<Fld("owner")>>)

\* C10 amended: when the two nested records have the same declared type, or
\* duck typing is on, every entry for the slot lies strictly below it; when
\* their declared types differ and duck typing is off, the complete run gives
\* exactly one entry for the slot, Modified at the slot itself.
C10_NestedRecord ==
    (OwnerBothRecords /\ ~is_filtered(RunOpts, <<Fld("owner")>>)) =>
        IF RunOpts.duck_type \/ TypeOf(base.f.owner) = TypeOf(other.f.owner)
        THEN \A n \in UnderOwner :
                Len(out[n].base) > 1 /\ Len(out[n].other) > 1
        ELSE pc = "done" =>
                /\ Cardinality(UnderOwner) = 1
                /\ \A n \in UnderOwner :
                      out[n] = DiffInfo(MODIFIED, <<Fld("owner")>>, <<Fld("owner")>>)

\* two nested records of one type that differ in a slot were compared, and
\* the difference was reported below the slot that holds them
C10_Witness ==
    /\ pc = "done"
    /\ OwnerBothRecords
    /\ TypeOf(base.f.owner) = TypeOf(other.f.owner)
    /\ base.f.owner # other.f.owner
    /\ \E n \in UnderOwner :
          out[n] = DiffInfo(MODIFIED, <<Fld("owner"), Fld("name")>>,
                            <<Fld("owner"), Fld("name")>>)

-----------------------------------------------------------------------------
(* C11  Unchanged entries of matched collection items *)

\* the paths of item i of CollA and of item j of CollB
ItemPathA(i) == Append(CollPath, Key(i - 1))
ItemPathB(j) == Append(CollPath, Key(j - 1))

\* the run yielded a difference strictly below the matched pair (i, j)
DifferenceBelow(i, j) ==
    \E n \in DOMAIN out :
        /\ out[n].diff_type \in {ADDED, REMOVED, MODIFIED}
        /\ StartsWith(out[n].base, ItemPathA(i))
        /\ StartsWith(out[n].other, ItemPathB(j))
        /\ Len(out[n].base) > Len(ItemPathA(i))

\* the run yielded an Unchanged entry located at the matched pair (i, j)
UnchangedAt(i, j) ==
    \E n \in DOMAIN out :
        out[n] = DiffInfo(NO_CHANGE, ItemPathA(i), ItemPathB(j))

\* C11: in a complete run with options.unchanged set, a matched (identity,
\* occurrence) pair of two keyed collections whose recursive comparison
\* yielded an Added, Removed or Modified entry has no Unchanged entry at the
\* item's path.
C11_UnchangedOnlyIfEqual ==
    (pc = "done" /\ HasColls /\ RunOpts.unchanged) =>
        \A i \in DOMAIN CollA.items, j \in DOMAIN CollB.items :
            (Matched(i, j) /\ DifferenceBelow(i, j)) => ~UnchangedAt(i, j)

-----------------------------------------------------------------------------
(* C12  Items normalized away are dropped *)

\* the root pair are two sequences or two scalar mappings, compared with
\* empty slots ignored
DropRun ==
    /\ \/ base.k = "list" /\ other.k = "list"
       \/ base.k = "dict" /\ other.k = "dict"
    /\ RunOpts.ignore_empty_slots

\* the path components of the items of a sequence or mapping
Slots(c) ==
    IF c.k = "list" THEN {Key(i - 1) : i \in DOMAIN c.items}
    ELSE {Fld(key) : key \in DOMAIN c.d}

\* the normalized item at a path component
NormAt(c, sl) ==
    normalize_item(IF c.k = "list" THEN c.items[sl.idx + 1] ELSE c.d[sl.name],
                   RunOpts)

\* the items that are not normalized away, and those among them equal to v
Kept(c) == {sl \in Slots(c) : NormAt(c, sl) # Nothing}
KeptOf(c, v) == {sl \in Kept(c) : NormAt(c, sl) = v}

\* the items of base reported Removed, the items of other reported Added
RemovedSlots ==
    {sl \in Slots(base) :
        \E n \in DOMAIN out : out[n] = DiffInfo(REMOVED, <<sl>>, << >>)}
AddedSlots ==
    {sl \in Slots(other) :
        \E n \in DOMAIN out : out[n] = DiffInfo(ADDED, << >>, <<sl>>)}

\* the kept item at position i of a sequence is one more than the other
\* sequence holds of its value, counting kept items only
Surplus(c, d, sl) ==
    Cardinality({t \in KeptOf(c, NormAt(c, sl)) : t.idx < sl.idx})
        >= Cardinality(KeptOf(d, NormAt(c, sl)))

\* C12: in a complete run over two sequences or two scalar mappings with
\* empty slots ignored, (a) no entry of any kind is located at an item that
\* is normalized away; (b) for every value the number of Removed entries is
\* max(0, kept_a(v) - kept_b(v)) and the number of Added entries is
\* max(0, kept_b(v) - kept_a(v)), every entry once, as if the dropped items
\* were not there; (c) in a sequence the Removed and Added entries sit at the
\* original positions of the kept items that exceed the other side's count.
C12_EmptyItemsDropped ==
    (pc = "done" /\ DropRun) =>
        /\ \A n \in DOMAIN out :
              /\ out[n].base = << >> \/ \E sl \in Kept(base) : out[n].base = <<sl>>
              /\ out[n].other = << >> \/ \E sl \in Kept(other) : out[n].other = <<sl>>
        /\ \A v \in {NormAt(base, sl) : sl \in Kept(base)}
                    \cup {NormAt(other, sl) : sl \in Kept(other)} :
              /\ Cardinality(RemovedSlots \cap KeptOf(base, v))
                    = Max0(Cardinality(KeptOf(base, v)) - Cardinality(KeptOf(other, v)))
              /\ Cardinality(AddedSlots \cap KeptOf(other, v))
                    = Max0(Cardinality(KeptOf(other, v)) - Cardinality(KeptOf(base, v)))
        /\ Cardinality(Where(IsAddedOrRemoved))
              = Cardinality(RemovedSlots) + Cardinality(AddedSlots)
        /\ base.k = "list" =>
              /\ RemovedSlots = {sl \in Kept(base) : Surplus(base, other, sl)}
              /\ AddedSlots = {sl \in Kept(other) : Surplus(other, base, sl)}

\* a sequence with an empty item between two equal values was compared with a
\* sequence holding the value once: the empty item was dropped and the second
\* occurrence was reported Removed at its original position 2
C12_Witness ==
    /\ pc = "done" /\ DropRun
    /\ base = ListV(<<Sx, SEmpty, Sx>>)
    /\ other = ListV(<<Sx>>)
    /\ RemovedSlots = {Key(2)}
    /\ AddedSlots = {}

=============================================================================
